---- MODULE Spec2Model ----
(***************************************************************************)
(* Model of scripts/prepare_data.py: the per-year batch that converts a    *)
(* year's shapefile to GeoJSON, stitches the year's PNG tiles into one     *)
(* mosaic, and finally writes metadata.json.                               *)
(*                                                                         *)
(* File names are sequences of one-character strings, so that sorted(),    *)
(* str.split('_') and int() are modelled by what they do.  Coordinates of  *)
(* bounding boxes are in micro-degrees (float degrees times 10^6).         *)
(* An image is identified by a colour number; tiles of a year share one    *)
(* side length, so the canvas is modelled one value per tile-sized cell,   *)
(* keyed by the pixel offset (x, y) of the cell's upper left corner.       *)
(***************************************************************************)
EXTENDS Integers, Sequences, FiniteSets, TLC

VARIABLES
    fs,               \* BASE_DIR: the input directory tree, per year
    out_geojson,      \* networks_dir: per year, the <year>.geojson file
    out_png,          \* imagery_dir: per year, the <year>.png file
    pc,               \* position of the script
    yi,               \* position of "for year in YEARS"
    bounds_list, successful_years, failed_years, year_success,
    tile_files, tile_size, num_tiles, grid_size, canvas, tiles_placed,
    ti,               \* position of "for tile_path in tile_files"
    tile_id, canvas_row, canvas_col,
    overall_bounds, available_years, metadata,
    metadata_writes,  \* number of times metadata.json was written
    log               \* the console output (print calls), one record per line

vars == <<fs, out_geojson, out_png, pc, yi, bounds_list, successful_years,
          failed_years, year_success, tile_files, tile_size, num_tiles,
          grid_size, canvas, tiles_placed, ti, tile_id, canvas_row,
          canvas_col, overall_bounds, available_years, metadata,
          metadata_writes, log>>

stitch_vars == <<tile_files, tile_size, num_tiles, grid_size, canvas,
                 tiles_placed, ti, tile_id, canvas_row, canvas_col>>

meta_vars == <<overall_bounds, available_years, metadata, metadata_writes>>

(***************************************************************************)
(* Bounds of the model                                                     *)
(***************************************************************************)
NumYears == 3      \* how many of the configured years a run goes through
MaxCount == 17     \* largest complete tile set tile_layer_0 .. tile_layer_(n-1)
MaxPick == 4       \* largest tile set picked freely from TileUniverse
TileSide == 256    \* side length of every tile image, in pixels

(***************************************************************************)
(* Configuration                                                           *)
(***************************************************************************)
ALL_YEARS == <<2024, 2022, 2020, 2018, 2016, 2014, 2012, 2010, 2008, 2006, 2004>>

YEARS == SubSeq(ALL_YEARS, 1, NumYears)

YearSet == {YEARS[j] : j \in 1..Len(YEARS)}

AREA_NAME == "hudson_yards"

FallbackGrid == 4

Black == 0

(***************************************************************************)
(* Characters and file names                                               *)
(***************************************************************************)
Ord(ch) ==
    CASE ch = "-" -> 45 [] ch = "." -> 46
      [] ch = "0" -> 48 [] ch = "1" -> 49 [] ch = "2" -> 50 [] ch = "3" -> 51
      [] ch = "4" -> 52 [] ch = "5" -> 53 [] ch = "6" -> 54 [] ch = "7" -> 55
      [] ch = "8" -> 56 [] ch = "9" -> 57
      [] ch = "_" -> 95
      [] ch = "a" -> 97 [] ch = "b" -> 98 [] ch = "e" -> 101 [] ch = "g" -> 103
      [] ch = "i" -> 105 [] ch = "l" -> 108 [] ch = "n" -> 110
      [] ch = "p" -> 112 [] ch = "r" -> 114 [] ch = "s" -> 115
      [] ch = "t" -> 116 [] ch = "u" -> 117 [] ch = "x" -> 120
      [] ch = "y" -> 121

IsDigit(ch) == Ord(ch) >= 48 /\ Ord(ch) <= 57

\* Path.__lt__ on two files of one folder: string order of the names
LexLess(a, b) ==
    \/ Len(a) < Len(b) /\ \A j \in 1..Len(a) : a[j] = b[j]
    \/ \E j \in 1..Len(a) :
          /\ j <= Len(b)
          /\ \A h \in 1..(j - 1) : a[h] = b[h]
          /\ Ord(a[j]) < Ord(b[j])

\* sorted(...): ascending list of a set of names
sorted(S) ==
    [k \in 1..Cardinality(S) |->
        CHOOSE x \in S : Cardinality({y \in S : LexLess(y, x)}) = k - 1]

Suffix == <<".", "p", "n", "g">>

\* Path.stem: the name up to its last dot; a name whose only dot leads it, or
\* whose last dot ends it, has no suffix and is its own stem
stem(name) ==
    LET dots == {j \in 1..Len(name) : name[j] = "."}
        last == CHOOSE j \in dots : \A h \in dots : h <= j
    IN  IF dots # {} /\ 1 < last /\ last < Len(name)
        THEN SubSeq(name, 1, last - 1)
        ELSE name

\* str.split('_'): the segments between underscores, empty ones kept
split(s) ==
    LET cuts == {j \in 1..Len(s) : s[j] = "_"}
        \* where segment k starts and ends
        from(k) == IF k = 1 THEN 1
                   ELSE 1 + (CHOOSE j \in cuts :
                                Cardinality({h \in cuts : h <= j}) = k - 1)
        upto(k) == IF k = Cardinality(cuts) + 1 THEN Len(s)
                   ELSE (CHOOSE j \in cuts :
                            Cardinality({h \in cuts : h <= j}) = k) - 1
    IN  [k \in 1..(Cardinality(cuts) + 1) |-> SubSeq(s, from(k), upto(k))]

RECURSIVE DigitsValue(_)
DigitsValue(s) ==
    IF s = <<>> THEN 0
    ELSE 10 * DigitsValue(SubSeq(s, 1, Len(s) - 1)) + (Ord(s[Len(s)]) - 48)

\* int(text): ok = FALSE stands for ValueError
int(s) ==
    LET neg  == s # <<>> /\ s[1] = "-"
        body == IF neg THEN Tail(s) ELSE s
        good == body # <<>> /\ \A j \in 1..Len(body) : IsDigit(body[j])
    IN  [ok  |-> good,
         val |-> IF good
                 THEN (IF neg THEN 0 - DigitsValue(body) ELSE DigitsValue(body))
                 ELSE 0]

(***************************************************************************)
(* The input tree: tile files, their images, polygon folders               *)
(***************************************************************************)
DigitChar == <<"0", "1", "2", "3", "4", "5", "6", "7", "8", "9">>

\* str(k) of a non-negative index, as it appears in an exported file name
RECURSIVE Decimal(_)
Decimal(k) ==
    IF k < 10 THEN <<DigitChar[k + 1]>>
    ELSE Decimal(k \div 10) \o <<DigitChar[(k % 10) + 1]>>

\* the exporter's naming convention <a>_<b>_<index>.png
TileName(k) == <<"t", "_", "l", "_">> \o Decimal(k) \o Suffix

\* the complete export of n tiles
CompleteSet(n) == {TileName(k) : k \in 0..(n - 1)}

\* other files a tiles folder can hold
ExtraNames ==
    << <<"t", "_", "l", "_", "1", "7">> \o Suffix,       \* index beyond a 4x4 grid
       <<"s", "_", "l", "_", "1">> \o Suffix,            \* index 1 again, sorts first
       <<"t", "_", "l", "_", "0", "1">> \o Suffix,       \* index 1 with a leading zero
       <<"t", "_", "1">> \o Suffix,                      \* two parts only
       <<"t", "_", "l", "_", "x">> \o Suffix,            \* third part not a number
       <<"t", "_", "l", "_", "-", "1">> \o Suffix,       \* negative index
       <<"t", "_", "l", "_", "2", "_", "b">> \o Suffix,  \* four parts, index 2
       <<"u", "_", "l", "_", "3">> \o Suffix,            \* truncated image, sorts last
       Suffix,                                           \* the file named .png
       <<"n", "_", "l", "_", "0">> \o Suffix,            \* not an image at all
       <<"a", "_", "l", "_", "0">> \o Suffix >>          \* truncated image, sorts first

TileUniverse ==
    {TileName(k) : k \in 0..3} \cup {ExtraNames[j] : j \in 1..Len(ExtraNames)}

\* files whose header no PIL plugin accepts
NotAnImage == {ExtraNames[10]}

\* files with a sound header whose pixel data is cut short
Truncated == {ExtraNames[8], ExtraNames[11]}

\* the picture stored in a tile file: one colour number per file, never Black
PixelsOf(name) ==
    IF \E j \in 1..Len(ExtraNames) : ExtraNames[j] = name
    THEN CHOOSE j \in 1..Len(ExtraNames) : ExtraNames[j] = name
    ELSE Len(ExtraNames) + 1 + (CHOOSE k \in 0..(MaxCount + 1) : TileName(k) = name)

\* Image.open(path) reads the header only: ok = FALSE stands for the
\* exception PIL raises when it cannot identify the file
ImageOpen(name) ==
    [ok     |-> name \notin NotAnImage,
     size   |-> <<TileSide, TileSide>>,
     pixels |-> PixelsOf(name)]

\* the pixel data is decoded when canvas.paste loads the opened image;
\* FALSE stands for the exception PIL raises on a truncated file
Decodes(name) == name \notin Truncated

NoBox == <<0, 0, 0, 0>>

\* gdf.total_bounds after reprojection to WGS84: (minx, miny, maxx, maxy)
BoxA == <<0, 0, 1000000, 1000000>>
BoxB == <<-1000000, -1000000, 500000, 500000>>
BoxC == <<-74003421, 40750033, -73997934, 40755121>>

Poly(kind, box) == [kind |-> kind, total_bounds |-> box]

Tiles(kind, files) == [kind |-> kind, files |-> files]

YearDir(poly, tiles) == [exists |-> TRUE, poly |-> poly, tiles |-> tiles]

MissingDir ==
    [exists |-> FALSE, poly |-> Poly("nofolder", NoBox), tiles |-> Tiles("nofolder", {})]

\* polygon folders of the stitching runs, one of every kind
PolyChoices ==
    {Poly("nofolder", NoBox), Poly("noshpdir", NoBox), Poly("badread", NoBox),
     Poly("ok", BoxA)}

\* year folders of the batch runs
BatchDirs ==
    {MissingDir,
     YearDir(Poly("nofolder", NoBox), Tiles("nofolder", {})),
     YearDir(Poly("noshpdir", NoBox), Tiles("nosub", {})),
     YearDir(Poly("noshp", NoBox),    Tiles("folder", CompleteSet(1))),
     YearDir(Poly("badread", NoBox),  Tiles("folder", {})),
     YearDir(Poly("badread", NoBox),
             Tiles("folder", {ExtraNames[2], ExtraNames[3], TileName(1)})),
     YearDir(Poly("ok", BoxA),        Tiles("folder", CompleteSet(4))),
     YearDir(Poly("ok", BoxB),        Tiles("folder", CompleteSet(4))),
     YearDir(Poly("ok", BoxC),        Tiles("folder", {ExtraNames[4], TileName(1), ExtraNames[1]})),
     YearDir(Poly("ok", BoxA),        Tiles("folder", {TileName(0), ExtraNames[5]})),
     YearDir(Poly("nofolder", NoBox), Tiles("folder", {TileName(0), ExtraNames[8]})),
     YearDir(Poly("noshpdir", NoBox), Tiles("folder", {ExtraNames[10]})),
     YearDir(Poly("ok", BoxB),        Tiles("nofolder", {}))}

\* year folders that come after the second year of a batch run
TailDirs ==
    {MissingDir,
     YearDir(Poly("ok", BoxC),       Tiles("folder", CompleteSet(1))),
     YearDir(Poly("badread", NoBox), Tiles("nofolder", {}))}

\* year folders of the repeated runs: every way a year can end, tile sets of
\* one grid size that paint different cells, and sets with a repeated index
RepeatDirs ==
    {MissingDir,
     YearDir(Poly("nofolder", NoBox), Tiles("nofolder", {})),
     YearDir(Poly("noshpdir", NoBox), Tiles("nosub", {})),
     YearDir(Poly("badread", NoBox),  Tiles("folder", {})),
     YearDir(Poly("ok", BoxA),        Tiles("folder", {ExtraNames[10]})),
     \* cells 0 and 2 painted, then the paste of the truncated file faults
     YearDir(Poly("ok", BoxB),
             Tiles("folder", {TileName(0), TileName(2), ExtraNames[8]})),
     \* index 1 three times
     YearDir(Poly("ok", BoxA),
             Tiles("folder", {ExtraNames[2], ExtraNames[3], TileName(1)})),
     YearDir(Poly("ok", BoxB),
             Tiles("folder", {ExtraNames[4], TileName(1), ExtraNames[1]})),
     \* cell 0 painted, then int() faults
     YearDir(Poly("nofolder", NoBox), Tiles("folder", {TileName(0), ExtraNames[5]})),
     \* a 2x2 grid: index 2 twice, a negative index, a malformed name
     YearDir(Poly("ok", BoxA),
             Tiles("folder", {TileName(2), ExtraNames[7], ExtraNames[6], ExtraNames[9]}))}

\* tiles folders of the stitching runs
StitchTiles ==
    {Tiles("nofolder", {}), Tiles("nosub", {})}
    \cup {Tiles("folder", CompleteSet(n)) : n \in 0..MaxCount}
    \* a complete export with one file misnamed (k < n) or one stray file added
    \cup {Tiles("folder", (CompleteSet(n) \ {TileName(k)}) \cup {ExtraNames[4]}) :
              n \in 1..MaxCount, k \in 0..(MaxCount - 1)}
    \cup {Tiles("folder", S) : S \in {T \in SUBSET TileUniverse : Cardinality(T) <= MaxPick}}

Absent == [state |-> "absent", total_bounds |-> NoBox]

NoImage == [state |-> "absent", canvas |-> [p \in {} |-> Black]]

\* the image a run before this one wrote for a year: a 2x2 mosaic
StaleImage ==
    [state |-> "stale",
     canvas |-> [p \in {<<c * TileSide, r * TileSide>> : c \in 0..1, r \in 0..1} |->
                    PixelsOf(TileName(3))]]

NoBounds == [west |-> 0, south |-> 0, east |-> 0, north |-> 0]

NoMetadata ==
    [area_name |-> "", tile_id |-> "", bounds |-> NoBounds, years |-> <<>>]

\* everything the script has not assigned yet
Fresh ==
    /\ pc = "year"
    /\ yi = 1
    /\ bounds_list = <<>>
    /\ successful_years = <<>>
    /\ failed_years = <<>>
    /\ year_success = [geojson |-> FALSE, imagery |-> FALSE]
    /\ tile_files = <<>>
    /\ tile_size = 0
    /\ num_tiles = 0
    /\ grid_size = 0
    /\ canvas = [p \in {} |-> Black]
    /\ tiles_placed = 0
    /\ ti = 1
    /\ tile_id = 0
    /\ canvas_row = 0
    /\ canvas_col = 0
    /\ overall_bounds = NoBounds
    /\ available_years = <<>>
    /\ metadata = NoMetadata
    /\ metadata_writes = 0
    /\ log = <<>>

\* A batch whose first two years have folders of every kind; the output
\* folders may hold one file left by an earlier run.
Init ==
    /\ fs \in [YearSet -> BatchDirs \cup TailDirs]
    /\ \A j \in 1..Len(YEARS) :
          fs[YEARS[j]] \in (IF j <= 2 THEN BatchDirs ELSE TailDirs)
    /\ \E sy \in YearSet \cup {0} : \E kind \in {"geojson", "png"} :
          /\ out_geojson = [y \in YearSet |->
                IF y = sy /\ kind = "geojson"
                THEN [state |-> "stale", total_bounds |-> NoBox] ELSE Absent]
          /\ out_png = [y \in YearSet |->
                IF y = sy /\ kind = "png"
                THEN StaleImage ELSE NoImage]
    /\ Fresh

\* One year folder with any tiles folder and any polygons folder, the other
\* years absent, into empty output folders.
InitStitch ==
    /\ \E p \in PolyChoices : \E t \in StitchTiles :
          fs = [y \in YearSet |-> IF y = YEARS[1] THEN YearDir(p, t) ELSE MissingDir]
    /\ out_geojson = [y \in YearSet |-> Absent]
    /\ out_png = [y \in YearSet |-> NoImage]
    /\ Fresh

\* Every year folder drawn from RepeatDirs, in every order, so that a tile
\* set is stitched again after any other year; the output folder is empty or
\* holds the images of an earlier run.
InitRepeat ==
    /\ fs \in [YearSet -> RepeatDirs]
    /\ out_geojson = [y \in YearSet |-> Absent]
    /\ \E old \in {NoImage, StaleImage} : out_png = [y \in YearSet |-> old]
    /\ Fresh

(***************************************************************************)
(* Console output                                                          *)
(***************************************************************************)
Line(y, msg, a, b, c) == [year |-> y, msg |-> msg, a |-> a, b |-> b, c |-> c]

Say(y, msg) == Line(y, msg, 0, 0, 0)

year == YEARS[yi]

(***************************************************************************)
(* for year in YEARS                                                       *)
(***************************************************************************)
YearMissing ==
    /\ pc = "year"
    /\ yi <= Len(YEARS)
    /\ ~fs[year].exists
    /\ log' = log \o <<Say(year, "processing"), Say(year, "year_missing")>>
    /\ failed_years' = Append(failed_years, year)
    /\ yi' = yi + 1
    /\ UNCHANGED <<fs, out_geojson, out_png, pc, bounds_list, successful_years,
                   year_success, stitch_vars, meta_vars>>

YearEnter ==
    /\ pc = "year"
    /\ yi <= Len(YEARS)
    /\ fs[year].exists
    /\ log' = Append(log, Say(year, "processing"))
    /\ year_success' = [geojson |-> FALSE, imagery |-> FALSE]
    /\ pc' = "geojson"
    /\ UNCHANGED <<fs, out_geojson, out_png, yi, bounds_list, successful_years,
                   failed_years, stitch_vars, meta_vars>>

(***************************************************************************)
(* Shapefile to GeoJSON                                                    *)
(***************************************************************************)
\* variant: a failed conversion gives up the year
AfterGeojsonFaultAbort == "track"

\* where the script goes on after the except clause of the conversion
AfterGeojsonFault == "stitch"

\* "if not poly_dir.exists()"
GeojsonNoPolygons ==
    /\ pc = "geojson"
    /\ fs[year].poly.kind = "nofolder"
    /\ log' = Append(log, Say(year, "no_polygons"))
    /\ pc' = "stitch"
    /\ UNCHANGED <<fs, out_geojson, out_png, yi, bounds_list, successful_years,
                   failed_years, year_success, stitch_vars, meta_vars>>

\* "if shp_folders: ... else"
GeojsonNoShpFolder ==
    /\ pc = "geojson"
    /\ fs[year].poly.kind = "noshpdir"
    /\ log' = Append(log, Say(year, "no_shp_folder"))
    /\ pc' = "stitch"
    /\ UNCHANGED <<fs, out_geojson, out_png, yi, bounds_list, successful_years,
                   failed_years, year_success, stitch_vars, meta_vars>>

\* list(...glob("*.shp"))[0] on a folder without one, or gpd.read_file or
\* gdf.crs.to_epsg() raising: caught by "except Exception"
GeojsonFault ==
    /\ pc = "geojson"
    /\ fs[year].poly.kind \in {"noshp", "badread"}
    /\ log' = Append(log, Say(year, "geojson_failed"))
    /\ pc' = AfterGeojsonFault
    /\ UNCHANGED <<fs, out_geojson, out_png, yi, bounds_list, successful_years,
                   failed_years, year_success, stitch_vars, meta_vars>>

\* the boxes kept for the metadata, after one more conversion
StoreBounds(list, bounds) == Append(list, bounds)

GeojsonOk ==
    /\ pc = "geojson"
    /\ fs[year].poly.kind = "ok"
    /\ out_geojson' = [out_geojson EXCEPT ![year] =
            [state |-> "written", total_bounds |-> fs[year].poly.total_bounds]]
    /\ log' = Append(log, Say(year, "geojson_ok"))
    /\ bounds_list' = StoreBounds(bounds_list, fs[year].poly.total_bounds)
    /\ year_success' = [year_success EXCEPT !.geojson = TRUE]
    /\ pc' = "stitch"
    /\ UNCHANGED <<fs, out_png, yi, successful_years, failed_years,
                   stitch_vars, meta_vars>>

(***************************************************************************)
(* Tile stitching                                                          *)
(***************************************************************************)
\* int(num_tiles ** 0.5): the root rounded down
IntSqrt(n) == CHOOSE g \in 0..n : g * g <= n /\ (g + 1) * (g + 1) > n

\* variant: no fallback for an irregular tile count
DetectGridSizeNoFallback(n) == IntSqrt(n)

\* "Detect grid size"
DetectGridSize(n) ==
    LET g == IntSqrt(n)
    IN  IF g * g # n THEN FallbackGrid ELSE g

\* variant: the canvas of the year before is kept when its size fits
ImageNewReused(gs, ts) ==
    IF DOMAIN canvas = {<<c * ts, r * ts>> : c \in 0..(gs - 1), r \in 0..(gs - 1)}
    THEN canvas
    ELSE [p \in {<<c * ts, r * ts>> : c \in 0..(gs - 1), r \in 0..(gs - 1)} |-> Black]

\* variant: a canvas that does not start black
ImageNewWhite(gs, ts) ==
    [p \in {<<c * ts, r * ts>> : c \in 0..(gs - 1), r \in 0..(gs - 1)} |-> 255]

\* Image.new('RGB', (tile_size * grid_size, tile_size * grid_size), color=(0, 0, 0))
ImageNew(gs, ts) ==
    [p \in {<<c * ts, r * ts>> : c \in 0..(gs - 1), r \in 0..(gs - 1)} |-> Black]

source_row(id, gs) == id \div gs

source_col(id, gs) == id % gs

\* variant: the row is not swapped
CanvasRowNoSwap(id, gs) == id \div gs

\* "Transposition (swap row/col)"
CanvasRow(id, gs) == source_col(id, gs)

CanvasCol(id, gs) == source_row(id, gs)

\* variant: bounds check off by one
OutOfBoundsStrict(row, col, gs) == row > gs \/ col > gs

\* "Bounds check"
OutOfBounds(row, col, gs) == row >= gs \/ col >= gs

\* variant: box given as (row, col)
PasteBoxSwapped(col, row, ts) == <<row * ts, col * ts>>

\* the upper left corner handed to canvas.paste
PasteBox(col, row, ts) == <<col * ts, row * ts>>

\* canvas.paste(img, box): a tile-sized image replaces the cell at box; PIL
\* clips what falls outside the canvas
paste(cv, pixels, box) ==
    IF box \in DOMAIN cv THEN [cv EXCEPT ![box] = pixels] ELSE cv

\* "if len(parts) >= 3"
WellFormed(parts) == Len(parts) >= 3

\* variant: one tile is not enough
HasSeveralTiles(files) == Len(files) > 1

\* "if tile_files"
HasTiles(files) == files # <<>>

\* "tiles_placed = 0"
PlacedAtStart == 0

StitchSkip(msg) ==
    /\ log' = Append(log, Say(year, msg))
    /\ pc' = "track"
    /\ UNCHANGED <<fs, out_geojson, out_png, yi, bounds_list, successful_years,
                   failed_years, year_success, meta_vars>>

StitchNoFolder ==
    /\ pc = "stitch"
    /\ fs[year].tiles.kind = "nofolder"
    /\ StitchSkip("no_stitched")
    /\ UNCHANGED stitch_vars

StitchNoSubfolders ==
    /\ pc = "stitch"
    /\ fs[year].tiles.kind = "nosub"
    /\ StitchSkip("no_subfolders")
    /\ UNCHANGED stitch_vars

StitchNoPng ==
    /\ pc = "stitch"
    /\ fs[year].tiles.kind = "folder"
    /\ tile_files' = sorted(fs[year].tiles.files)
    /\ ~HasTiles(tile_files')
    /\ StitchSkip("no_png")
    /\ UNCHANGED <<tile_size, num_tiles, grid_size, canvas, tiles_placed, ti,
                   tile_id, canvas_row, canvas_col>>

\* Image.open(tile_files[0]) raises
StitchFirstTileFault ==
    /\ pc = "stitch"
    /\ fs[year].tiles.kind = "folder"
    /\ tile_files' = sorted(fs[year].tiles.files)
    /\ HasTiles(tile_files')
    /\ ~ImageOpen(tile_files'[1]).ok
    /\ StitchSkip("stitch_failed")
    /\ UNCHANGED <<tile_size, num_tiles, grid_size, canvas, tiles_placed, ti,
                   tile_id, canvas_row, canvas_col>>

StitchBegin ==
    /\ pc = "stitch"
    /\ fs[year].tiles.kind = "folder"
    /\ tile_files' = sorted(fs[year].tiles.files)
    /\ HasTiles(tile_files')
    /\ ImageOpen(tile_files'[1]).ok
    /\ tile_size' = ImageOpen(tile_files'[1]).size[1]
    /\ num_tiles' = Len(tile_files')
    /\ grid_size' = DetectGridSize(num_tiles')
    /\ log' = IF IntSqrt(num_tiles') * IntSqrt(num_tiles') # num_tiles'
              THEN Append(log, Line(year, "not_square", num_tiles', 0, 0))
              ELSE log
    /\ canvas' = ImageNew(grid_size', tile_size')
    /\ tiles_placed' = PlacedAtStart
    /\ ti' = 1
    /\ pc' = "place"
    /\ UNCHANGED <<fs, out_geojson, out_png, yi, bounds_list, successful_years,
                   failed_years, year_success, tile_id, canvas_row, canvas_col,
                   meta_vars>>

tile_path == tile_files[ti]

\* tile_path.stem.split('_') and int(parts[2]), tabulated once for every file
\* name and index text that occurs
KnownNames == TileUniverse \cup CompleteSet(MaxCount)

SplitStem == [n \in KnownNames |-> split(stem(n))]

ParsedInt ==
    [t \in {SplitStem[n][3] : n \in {m \in KnownNames : Len(SplitStem[m]) >= 3}} |-> int(t)]

parts == SplitStem[tile_path]

InLoop == pc = "place" /\ ti <= Len(tile_files)

\* fewer than three parts: nothing happens for this file
TileMalformed ==
    /\ InLoop
    /\ ~WellFormed(parts)
    /\ ti' = ti + 1
    /\ UNCHANGED <<fs, out_geojson, out_png, pc, yi, bounds_list,
                   successful_years, failed_years, year_success, tile_files,
                   tile_size, num_tiles, grid_size, canvas, tiles_placed,
                   tile_id, canvas_row, canvas_col, meta_vars, log>>

\* int(parts[2]) raises ValueError: the year's stitching ends in the except clause
TileBadIndex ==
    /\ InLoop
    /\ WellFormed(parts)
    /\ ~ParsedInt[parts[3]].ok
    /\ StitchSkip("stitch_failed")
    /\ UNCHANGED stitch_vars

TileOutOfBounds ==
    /\ InLoop
    /\ WellFormed(parts)
    /\ ParsedInt[parts[3]].ok
    /\ LET id  == ParsedInt[parts[3]].val
           row == CanvasRow(id, grid_size)
           col == CanvasCol(id, grid_size)
       IN  /\ OutOfBounds(row, col, grid_size)
           /\ tile_id' = id
           /\ canvas_row' = row
           /\ canvas_col' = col
           /\ log' = Append(log, Line(year, "out_of_bounds", id, 0, 0))
    /\ ti' = ti + 1
    /\ UNCHANGED <<fs, out_geojson, out_png, pc, yi, bounds_list,
                   successful_years, failed_years, year_success, tile_files,
                   tile_size, num_tiles, grid_size, canvas, tiles_placed,
                   meta_vars>>

\* Image.open(tile_path) raises, or canvas.paste raises while decoding
TileUnreadable ==
    /\ InLoop
    /\ WellFormed(parts)
    /\ ParsedInt[parts[3]].ok
    /\ LET id  == ParsedInt[parts[3]].val
           row == CanvasRow(id, grid_size)
           col == CanvasCol(id, grid_size)
       IN  /\ ~OutOfBounds(row, col, grid_size)
           /\ tile_id' = id
           /\ canvas_row' = row
           /\ canvas_col' = col
    /\ ~(ImageOpen(tile_path).ok /\ Decodes(tile_path))
    /\ StitchSkip("stitch_failed")
    /\ UNCHANGED <<tile_files, tile_size, num_tiles, grid_size, canvas,
                   tiles_placed, ti>>

TilePaste ==
    /\ InLoop
    /\ WellFormed(parts)
    /\ ParsedInt[parts[3]].ok
    /\ ImageOpen(tile_path).ok
    /\ Decodes(tile_path)
    /\ LET id  == ParsedInt[parts[3]].val
           row == CanvasRow(id, grid_size)
           col == CanvasCol(id, grid_size)
       IN  /\ ~OutOfBounds(row, col, grid_size)
           /\ tile_id' = id
           /\ canvas_row' = row
           /\ canvas_col' = col
           /\ canvas' = paste(canvas, ImageOpen(tile_path).pixels,
                              PasteBox(col, row, tile_size))
    /\ tiles_placed' = tiles_placed + 1
    /\ ti' = ti + 1
    /\ UNCHANGED <<fs, out_geojson, out_png, pc, yi, bounds_list,
                   successful_years, failed_years, year_success, tile_files,
                   tile_size, num_tiles, grid_size, meta_vars, log>>

\* canvas.save(output_img, 'PNG', optimize=True) after the loop
SaveImage ==
    /\ pc = "place"
    /\ ti > Len(tile_files)
    /\ out_png' = [out_png EXCEPT ![year] = [state |-> "written", canvas |-> canvas]]
    /\ log' = Append(log, Line(year, "imagery", tiles_placed, num_tiles, grid_size))
    /\ year_success' = [year_success EXCEPT !.imagery = TRUE]
    /\ pc' = "track"
    /\ UNCHANGED <<fs, out_geojson, yi, bounds_list, successful_years,
                   failed_years, stitch_vars, meta_vars>>

\* "Track year status"
TrackYear ==
    /\ pc = "track"
    /\ IF year_success.geojson \/ year_success.imagery
       THEN /\ successful_years' = Append(successful_years, year)
            /\ UNCHANGED failed_years
       ELSE /\ failed_years' = Append(failed_years, year)
            /\ UNCHANGED successful_years
    /\ yi' = yi + 1
    /\ pc' = "year"
    /\ UNCHANGED <<fs, out_geojson, out_png, bounds_list, year_success,
                   stitch_vars, meta_vars, log>>

(***************************************************************************)
(* Metadata                                                                *)
(***************************************************************************)
RECURSIVE ColumnMin(_, _)
ColumnMin(list, j) ==
    IF Len(list) = 1 THEN list[1][j]
    ELSE LET m == ColumnMin(Tail(list), j)
         IN  IF list[1][j] < m THEN list[1][j] ELSE m

RECURSIVE ColumnMax(_, _)
ColumnMax(list, j) ==
    IF Len(list) = 1 THEN list[1][j]
    ELSE LET m == ColumnMax(Tail(list), j)
         IN  IF list[1][j] > m THEN list[1][j] ELSE m

\* variant: the box of the last converted year only
AggregateBoundsLast(list) ==
    [west  |-> list[Len(list)][1],
     south |-> list[Len(list)][2],
     east  |-> list[Len(list)][3],
     north |-> list[Len(list)][4]]

\* the reduction of np.array(bounds_list)
AggregateBounds(list) ==
    [west  |-> ColumnMin(list, 1),
     south |-> ColumnMin(list, 2),
     east  |-> ColumnMax(list, 3),
     north |-> ColumnMax(list, 4)]

\* "Fallback: Use approximate bounds based on area name"
FallbackBounds(area) ==
    IF area = "east_harlem"
    THEN [west |-> -73979239, south |-> 40777385, east |-> -73970209, north |-> 40784245]
    ELSE IF area = "hudson_yards"
    THEN [west |-> -74003421, south |-> 40750033, east |-> -73997934, north |-> 40755121]
    ELSE [west |-> -74010000, south |-> 40700000, east |-> -73970000, north |-> 40760000]

BoundsAggregate ==
    /\ pc = "year"
    /\ yi > Len(YEARS)
    /\ bounds_list # <<>>
    /\ overall_bounds' = AggregateBounds(bounds_list)
    /\ pc' = "meta"
    /\ UNCHANGED <<fs, out_geojson, out_png, yi, bounds_list, successful_years,
                   failed_years, year_success, stitch_vars, available_years,
                   metadata, metadata_writes, log>>

BoundsFallback ==
    /\ pc = "year"
    /\ yi > Len(YEARS)
    /\ bounds_list = <<>>
    /\ overall_bounds' = FallbackBounds(AREA_NAME)
    /\ log' = Append(log, Say(0, "no_bounds"))
    /\ pc' = "meta"
    /\ UNCHANGED <<fs, out_geojson, out_png, yi, bounds_list, successful_years,
                   failed_years, year_success, stitch_vars, available_years,
                   metadata, metadata_writes>>

\* "Check which years actually have data"
HasData(y) == out_geojson[y].state # "absent" \/ out_png[y].state # "absent"

AvailableYears == SelectSeq(YEARS, HasData)

RECURSIVE SortedReverse(_)
\* sorted(list, reverse=True) of a list of integers
SortedReverse(list) ==
    IF list = <<>> THEN <<>>
    ELSE LET j == CHOOSE h \in 1..Len(list) : \A g \in 1..Len(list) : list[h] >= list[g]
         IN  <<list[j]>> \o
             SortedReverse(SubSeq(list, 1, j - 1) \o SubSeq(list, j + 1, Len(list)))

\* variant: the years as collected, in reverse
MetadataYearsAscending(list) == [j \in 1..Len(list) |-> list[Len(list) + 1 - j]]

MetadataYears(list) == SortedReverse(list)

WriteMetadata ==
    /\ pc = "meta"
    /\ available_years' = AvailableYears
    /\ metadata' = [area_name |-> AREA_NAME,
                    tile_id   |-> "hudson_yards_tile_0",
                    bounds    |-> overall_bounds,
                    years     |-> MetadataYears(available_years')]
    /\ metadata_writes' = metadata_writes + 1
    /\ pc' = "done"
    /\ UNCHANGED <<fs, out_geojson, out_png, yi, bounds_list, successful_years,
                   failed_years, year_success, stitch_vars, overall_bounds, log>>

Next ==
    \/ YearMissing
    \/ YearEnter
    \/ GeojsonNoPolygons
    \/ GeojsonNoShpFolder
    \/ GeojsonFault
    \/ GeojsonOk
    \/ StitchNoFolder
    \/ StitchNoSubfolders
    \/ StitchNoPng
    \/ StitchFirstTileFault
    \/ StitchBegin
    \/ TileMalformed
    \/ TileBadIndex
    \/ TileOutOfBounds
    \/ TileUnreadable
    \/ TilePaste
    \/ SaveImage
    \/ TrackYear
    \/ BoundsAggregate
    \/ BoundsFallback
    \/ WriteMetadata

Spec == Init /\ [][Next]_vars

StitchSpec == InitStitch /\ [][Next]_vars

RepeatSpec == InitRepeat /\ [][Next]_vars

(***************************************************************************)
(* Properties                                                              *)
(***************************************************************************)
IndexText(name) == split(stem(name))[3]

\* the file has at least three parts and its third part is a number
Indexed(name) == WellFormed(split(stem(name))) /\ int(IndexText(name)).ok

IndexOf(name) == int(IndexText(name)).val

Malformed(name) == Len(split(stem(name))) < 3

\* the stitching loop of the current year has gone through every file
LoopEnded == pc = "place" /\ ti > Len(tile_files)

\* the loop has just handled a file that carries an index
Mapped == pc = "place" /\ ti > 1 /\ Indexed(tile_files[ti - 1])

LastLine == log[Len(log)]

IsSquare(n) == \E g \in 0..n : g * g = n

Cells(gs) == {<<r, c>> : r \in 0..(gs - 1), c \in 0..(gs - 1)}

\* C1: for a tile count n > 0 the grid size of the year's mosaic is the root
\* of n when n is a perfect square, and 4 otherwise.
C1_GridSize ==
    num_tiles > 0 =>
        /\ \A g \in 0..num_tiles : g * g = num_tiles => grid_size = g
        /\ ~IsSquare(num_tiles) => grid_size = 4

C1_Witness == pc = "place" /\ num_tiles = 17 /\ grid_size = 4

\* C2: a tile whose index lies in [0, grid_size^2) goes to row index mod
\* grid_size, column index div grid_size, both inside the grid; it is not
\* rejected but pasted there, and column * grid_size + row gives the index back.
C2_InsideGrid ==
    (Mapped /\ tile_id >= 0 /\ tile_id < grid_size * grid_size) =>
        /\ tile_id = IndexOf(tile_files[ti - 1])
        /\ canvas_row = tile_id % grid_size
        /\ canvas_col = tile_id \div grid_size
        /\ canvas_row \in 0..(grid_size - 1)
        /\ canvas_col \in 0..(grid_size - 1)
        /\ canvas_col * grid_size + canvas_row = tile_id
        /\ \A j \in 1..Len(log) :
              ~(log[j].year = year /\ log[j].msg = "out_of_bounds" /\ log[j].a = tile_id)
        /\ canvas[<<canvas_col * tile_size, canvas_row * tile_size>>]
              = PixelsOf(tile_files[ti - 1])

C2_Witness ==
    /\ Mapped /\ grid_size = 3 /\ tile_id = 5
    /\ canvas_row = 2 /\ canvas_col = 1
    /\ canvas[<<tile_size, 2 * tile_size>>] = PixelsOf(tile_files[ti - 1])

\* C3: a tile whose index is grid_size^2 or more is skipped by the bounds
\* check: the canvas and the placed counter stay as they are and the loop goes on.
C3_OutsideGrid ==
    [][(InLoop /\ Indexed(tile_path) /\ IndexOf(tile_path) >= grid_size * grid_size) =>
          /\ canvas' = canvas
          /\ tiles_placed' = tiles_placed
          /\ pc' = "place"
          /\ ti' = ti + 1
          /\ log' = Append(log, Line(year, "out_of_bounds", IndexOf(tile_path), 0, 0))]_vars

C3_Witness ==
    /\ Mapped /\ tile_id >= grid_size * grid_size
    /\ LastLine.msg = "out_of_bounds" /\ LastLine.a = tile_id
    /\ grid_size = 2

OneMalformed ==
    /\ Cardinality({j \in 1..Len(tile_files) : Malformed(tile_files[j])}) = 1
    /\ \A j \in 1..Len(tile_files) : Malformed(tile_files[j]) \/ Indexed(tile_files[j])
    /\ \A j, h \in 1..Len(tile_files) :
          (j # h /\ Indexed(tile_files[j]) /\ Indexed(tile_files[h]))
              => IndexOf(tile_files[j]) # IndexOf(tile_files[h])

\* the cells no file of the set claims
Unclaimed ==
    {q \in Cells(grid_size) :
        \A j \in 1..Len(tile_files) :
            Indexed(tile_files[j]) => IndexOf(tile_files[j]) # q[2] * grid_size + q[1]}

\* C4 as stated: one malformed file among files with distinct indices leaves
\* placed = total - 1 and the unclaimed cells black.
C4_AsStated ==
    (LoopEnded /\ OneMalformed) =>
        /\ tiles_placed = num_tiles - 1
        /\ \A q \in Unclaimed : canvas[<<q[2] * tile_size, q[1] * tile_size>>] = Black

\* C4 amended: one malformed file, the other files carrying distinct indices
\* inside [0, grid_size^2): placed = total - 1, and every cell none of them
\* claims (the malformed file's cell among them) stays black.
C4_PartialTolerance ==
    (/\ LoopEnded /\ OneMalformed
     /\ \A j \in 1..Len(tile_files) :
           Indexed(tile_files[j]) =>
               (IndexOf(tile_files[j]) >= 0 /\ IndexOf(tile_files[j]) < grid_size * grid_size))
    =>
        /\ num_tiles = Len(tile_files)
        /\ grid_size = (IF IsSquare(num_tiles)
                        THEN CHOOSE g \in 0..num_tiles : g * g = num_tiles ELSE 4)
        /\ tiles_placed = num_tiles - 1
        /\ \A q \in Unclaimed : canvas[<<q[2] * tile_size, q[1] * tile_size>>] = Black

C4_Witness ==
    /\ LoopEnded /\ OneMalformed
    /\ num_tiles = 9 /\ grid_size = 3 /\ tiles_placed = 8
    /\ Cardinality(Unclaimed) = 1
    /\ \A j \in 1..Len(tile_files) : Indexed(tile_files[j]) => IndexOf(tile_files[j]) < 9

\* the files of the year that claim cell (r, c)
Claimants(r, c) ==
    {n \in fs[year].tiles.files : Indexed(n) /\ IndexOf(n) = c * grid_size + r}

LastByName(S) == CHOOSE n \in S : \A m \in S \ {n} : LexLess(m, n)

\* C9: when the loop ends, each cell (r, c) of the grid_size x grid_size canvas
\* shows the last file by name that is well formed with index c * grid_size + r,
\* at offset (c * tile_side, r * tile_side), or black when there is none;
\* placed counts the well-formed files with index < grid_size^2, at most total.
C9_CanvasContent ==
    LoopEnded =>
        /\ DOMAIN canvas = {<<c * tile_size, r * tile_size>> :
                               r \in 0..(grid_size - 1), c \in 0..(grid_size - 1)}
        /\ \A r \in 0..(grid_size - 1), c \in 0..(grid_size - 1) :
              canvas[<<c * tile_size, r * tile_size>>] =
                  IF Claimants(r, c) = {} THEN Black
                  ELSE PixelsOf(LastByName(Claimants(r, c)))
        /\ tiles_placed =
              Cardinality({n \in fs[year].tiles.files :
                              Indexed(n) /\ IndexOf(n) < grid_size * grid_size})
        /\ tiles_placed <= num_tiles
        /\ num_tiles = Cardinality(fs[year].tiles.files)

C9_Witness ==
    /\ LoopEnded /\ grid_size = 2 /\ tiles_placed = 3
    /\ Cardinality(Claimants(1, 0)) = 2
    /\ canvas[<<0, tile_size>>] = PixelsOf(TileName(1))
    /\ canvas[<<tile_size, 0>>] = PixelsOf(TileName(2))
    /\ canvas[<<tile_size, tile_size>>] = Black

Pos(y) == CHOOSE k \in 1..Len(YEARS) : YEARS[k] = y

\* the script is past the year's loop body
Finished(y) == Pos(y) < yi

IsProcessing(l) == l.msg = "processing"

\* the years announced by "Processing <year>...", in order
Visited == [j \in 1..Len(SelectSeq(log, IsProcessing)) |-> SelectSeq(log, IsProcessing)[j].year]

StitchOutcomes == {"no_stitched", "no_subfolders", "no_png", "stitch_failed", "imagery"}

Said(y, msg) == \E j \in 1..Len(log) : log[j].year = y /\ log[j].msg = msg

C5_Safety ==
    \* the years are visited in the configured order, each once
    /\ Len(Visited) <= Len(YEARS)
    /\ \A j \in 1..Len(Visited) : Visited[j] = YEARS[j]
    /\ pc \in {"meta", "done"} => Len(Visited) = Len(YEARS)
    \* a failed conversion is followed by the same year's stitching step
    /\ \A j \in 1..Len(log) :
          (log[j].msg = "geojson_failed" /\ Finished(log[j].year)) =>
              \E h \in (j + 1)..Len(log) :
                  log[h].year = log[j].year /\ log[h].msg \in StitchOutcomes
    \* a failed stitching does not end the run either
    /\ \A y \in YearSet :
          (Finished(y) /\ fs[y].exists) =>
              Cardinality({h \in 1..Len(log) :
                  log[h].year = y /\ log[h].msg \in StitchOutcomes}) = 1
    /\ metadata_writes = 1 => Len(Visited) = Len(YEARS)

\* how far the script has come: grows with every step it takes
Progress ==
    1000 * yi +
    (CASE pc = "year" -> 0 [] pc = "geojson" -> 1 [] pc = "stitch" -> 2
       [] pc = "place" -> 2 + ti [] pc = "track" -> 900
       [] pc = "meta" -> 901 [] pc = "done" -> 902)

\* C5: whatever is missing or fails in a year, the stitching step of a year
\* whose conversion failed is still run, every later year is processed in the
\* configured order, each year once, and the run does not stop before the
\* metadata is written: every step moves it forward and, until the metadata
\* is written, a next step exists.
C5_NeverAborts ==
    /\ [](C5_Safety /\ (pc = "done" \/ ENABLED Next) /\ (pc = "done" => metadata_writes = 1))
    /\ [][Progress' > Progress]_vars

C5_Witness ==
    /\ pc = "done" /\ metadata_writes = 1
    /\ Said(YEARS[1], "geojson_failed") /\ Said(YEARS[1], "imagery")
    /\ Said(YEARS[2], "stitch_failed")
    /\ Visited = YEARS

\* the boxes of the conversions that succeeded in this run
Contributed ==
    {out_geojson[y].total_bounds : y \in {z \in YearSet : out_geojson[z].state = "written"}}

\* C6: with at least one converted year the bounds are the componentwise
\* min of west and south and max of east and north over the boxes of the
\* years converted in this run; with none they are the static box of the area.
C6_Bounds ==
    pc \in {"meta", "done"} =>
        /\ Contributed # {} =>
              /\ \A b \in Contributed :
                    /\ overall_bounds.west <= b[1] /\ overall_bounds.south <= b[2]
                    /\ overall_bounds.east >= b[3] /\ overall_bounds.north >= b[4]
              /\ \E b \in Contributed : overall_bounds.west = b[1]
              /\ \E b \in Contributed : overall_bounds.south = b[2]
              /\ \E b \in Contributed : overall_bounds.east = b[3]
              /\ \E b \in Contributed : overall_bounds.north = b[4]
        /\ Contributed = {} =>
              overall_bounds = [west |-> -74003421, south |-> 40750033,
                                east |-> -73997934, north |-> 40755121]
        /\ pc = "done" => metadata.bounds = overall_bounds

C6_Witness ==
    /\ pc = "done"
    /\ bounds_list = << <<0, 0, 1000000, 1000000>>, <<-1000000, -1000000, 500000, 500000>> >>
    /\ metadata.bounds = [west |-> -1000000, south |-> -1000000,
                          east |-> 1000000, north |-> 1000000]

ImageryLine(y) == log[CHOOSE j \in 1..Len(log) : log[j].year = y /\ log[j].msg = "imagery"]

\* the grid a count of n files gives
GridFor(n) == IF IsSquare(n) THEN CHOOSE g \in 0..n : g * g = n ELSE 4

\* for every file name that occurs: whether it carries an index, and which
IndexTable ==
    [n \in KnownNames |->
        [ok |-> Indexed(n), val |-> IF Indexed(n) THEN IndexOf(n) ELSE 0]]

\* the files of the set that claim cell (r, c) of a gs x gs grid
ClaimantsOf(files, gs, r, c) ==
    {n \in files : IndexTable[n].ok /\ IndexTable[n].val = c * gs + r}

\* the mosaic and the counts that the tile files of year y determine
FromTilesAlone(y) ==
    LET files == fs[y].tiles.files
        n     == Cardinality(files)
        gs    == GridFor(n)
        line  == ImageryLine(y)
    IN  /\ line.a = Cardinality({f \in files :
                                    IndexTable[f].ok /\ IndexTable[f].val < gs * gs})
        /\ line.b = n
        /\ line.c = gs
        /\ DOMAIN out_png[y].canvas =
              {<<c * TileSide, r * TileSide>> : r \in 0..(gs - 1), c \in 0..(gs - 1)}
        /\ \A r \in 0..(gs - 1), c \in 0..(gs - 1) :
              out_png[y].canvas[<<c * TileSide, r * TileSide>>] =
                  IF ClaimantsOf(files, gs, r, c) = {} THEN Black
                  ELSE PixelsOf(LastByName(ClaimantsOf(files, gs, r, c)))

\* two files of year y carry the same index
RepeatedIndex(y) ==
    \E m, n \in fs[y].tiles.files :
        /\ m # n /\ IndexTable[m].ok /\ IndexTable[n].ok
        /\ IndexTable[m].val = IndexTable[n].val

\* C7: the mosaic a year writes and its placed/total counts and grid size are
\* those its own tile files determine, whatever the years before it stitched,
\* left half done or failed on and whatever image an earlier run left; so two
\* years stitched from the same tile files end with the same canvas and counts.
C7_Idempotent ==
    \A y1 \in YearSet :
        out_png[y1].state = "written" =>
            /\ FromTilesAlone(y1)
            /\ \A y2 \in YearSet :
                  (out_png[y2].state = "written" /\ fs[y1].tiles = fs[y2].tiles) =>
                      /\ out_png[y1].canvas = out_png[y2].canvas
                      /\ ImageryLine(y1) = [ImageryLine(y2) EXCEPT !.year = y1]

\* the first and the third year stitch one tile set with a repeated index; the
\* year between them paints other cells of a canvas of the same size and then
\* fails, and an earlier run had left an image for every year
C7_Witness ==
    /\ pc = "done"
    /\ out_png[YEARS[1]].state = "written" /\ out_png[YEARS[3]].state = "written"
    /\ fs[YEARS[1]].tiles = fs[YEARS[3]].tiles
    /\ RepeatedIndex(YEARS[1])
    /\ fs[YEARS[2]].tiles.files = {TileName(0), TileName(2), ExtraNames[8]}
    /\ out_png[YEARS[2]] = StaleImage
    /\ Said(YEARS[2], "stitch_failed")
    /\ ImageryLine(YEARS[1]).c = 4
    /\ out_png[YEARS[3]].canvas = out_png[YEARS[1]].canvas

\* C8: the metadata is written once, after all years; its years are strictly
\* descending, are exactly the configured years with a geojson or png file in
\* the output folders, and include every year that succeeded in this run.
C8_MetadataYears ==
    /\ metadata_writes <= 1
    /\ metadata_writes = 1 <=> pc = "done"
    /\ pc # "done" => metadata = NoMetadata
    /\ pc = "done" =>
          /\ yi > Len(YEARS)
          /\ \A j \in 1..(Len(metadata.years) - 1) : metadata.years[j] > metadata.years[j + 1]
          /\ {metadata.years[j] : j \in 1..Len(metadata.years)} =
                {y \in YearSet : out_geojson[y].state # "absent" \/ out_png[y].state # "absent"}
          /\ \A j \in 1..Len(successful_years) :
                \E h \in 1..Len(metadata.years) : metadata.years[h] = successful_years[j]

C8_Witness ==
    /\ pc = "done"
    /\ metadata.years = <<YEARS[1], YEARS[2]>>
    /\ successful_years = <<YEARS[2]>>
    /\ out_png[YEARS[1]].state = "stale"

NoTiles(y) == fs[y].tiles.kind # "folder" \/ fs[y].tiles.files = {}

AllUsable(y) ==
    /\ fs[y].tiles.kind = "folder"
    /\ fs[y].tiles.files # {}
    /\ \A n \in fs[y].tiles.files :
          ImageOpen(n).ok /\ Decodes(n) /\ (Malformed(n) \/ Indexed(n))

C10_State ==
    /\ pc = "place" => (num_tiles >= 1 /\ grid_size >= 1 /\ DOMAIN canvas # {})
    /\ \A y \in YearSet :
          (fs[y].exists /\ (Finished(y) \/ (pc = "track" /\ y = year))) =>
              /\ NoTiles(y) =>
                    /\ out_png[y].state # "written"
                    /\ ~Said(y, "imagery")
                    /\ (pc = "track" /\ y = year) => ~year_success.imagery
              /\ AllUsable(y) => (out_png[y].state = "written" /\ Said(y, "imagery"))

C10_Step ==
    (pc = "stitch" /\ NoTiles(year)) =>
        /\ UNCHANGED <<num_tiles, grid_size, canvas, tile_size, tiles_placed, out_png>>
        /\ pc' = "track"

\* C10: a year without tile files computes no grid size, allocates no canvas,
\* writes no image and records no imagery success, so an allocated canvas has
\* at least one tile and a grid size of at least 1; a year whose files are
\* all readable and all malformed or numbered always writes its image.
C10_EmptyGuard == []C10_State /\ [][C10_Step]_vars

C10_Witness ==
    /\ pc = "track" /\ AllUsable(year)
    /\ out_png[year].state = "written"
    /\ num_tiles = 2 /\ tiles_placed = 0
    /\ \E n \in fs[year].tiles.files : Malformed(n)
    /\ Said(year, "out_of_bounds")

====
